---- MODULE Spec2Model ----
(***************************************************************************)
(* The "before" plugin of slate-react (plugins/dom/before.js): the closure *)
(* state of one BeforePlugin() instance, the editor and DOM state its      *)
(* handlers read and write, the animation-frame callbacks it schedules,    *)
(* and flushQueuedNativeOperations, which merges a text mutation the       *)
(* browser made during a composition back into the document.               *)
(***************************************************************************)
EXTENDS Integers, Sequences, FiniteSets, TLC

\* ------------------------------------------------------------------ bounds
MaxLen == 2           \* longest text content of one DOM container
MaxCompositions == 2  \* cap on compositionCount
MaxTasks == 2         \* cap on queued animation-frame callbacks
MaxBlocks == 3        \* most top-level blocks of a document given to removeNodeAtPath

\* ------------------------------------------------------------- vocabulary
Keys == {1}                    \* keys of the text nodes of the document
KeyElements == {1, 2}          \* [data-key] elements: the text node's and its block's
InitTexts == {<<"a">>}         \* the text the text node starts with
ZW == "Z"                      \* the zero-width placeholder, U+FEFF
TypedChars == {"b", ZW}        \* what the browser writes during a composition

VARIABLES
  isComposing,            \* before.js:32
  compositionCount,       \* before.js:31
  isCopying,              \* before.js:33
  isDragging,             \* before.js:34
  isUserActionPerformed,  \* before.js:35
  activeElement,          \* before.js:30
  document,               \* editor.value.document: key -> text
  selection,              \* editor.value.selection
  nextNativeOperation,    \* editor.controller.tmp.nextNativeOperation
  dom,                    \* key -> the text runs of the [data-key] element
  nativeSelection,        \* window.getSelection()
  frameTasks,             \* callbacks given to requestAnimationFrame
  last,                   \* what the latest step did (observation only)
  inComposition           \* a compositionstart was seen since the last compositionend

sessionVars == <<isComposing, compositionCount, isCopying, isDragging,
                 isUserActionPerformed, activeElement>>
editorVars == <<document, selection, nextNativeOperation>>
domVars == <<dom, nativeSelection>>
vars == <<isComposing, compositionCount, isCopying, isDragging,
          isUserActionPerformed, activeElement, document, selection,
          nextNativeOperation, dom, nativeSelection, frameTasks, last,
          inComposition>>

\* ---------------------------------------------------------------- helpers
RECURSIVE Flatten(_)
Flatten(ss) == IF ss = <<>> THEN <<>> ELSE Head(ss) \o Flatten(Tail(ss))

RemoveAt(s, i) == [j \in 1..(Len(s) - 1) |-> IF j < i THEN s[j] ELSE s[j + 1]]

\* String.prototype.replace(/[\uFEFF]/g, '')
StripZeroWidth(s) == SelectSeq(s, LAMBDA c : c # ZW)

\* Node.textContent of a text run and of a whole [data-key] element
RunText(run) == Flatten([i \in 1..Len(run.kids) |-> run.kids[i].txt])
TextContent(runs) == Flatten([i \in 1..Len(runs) |-> RunText(runs[i])])

HasKid(run, id) == \E i \in 1..Len(run.kids) : run.kids[i].id = id
KidIndex(run, id) == CHOOSE i \in 1..Len(run.kids) : run.kids[i].id = id

\* The leaves slate-react renders for a text node: one string run, or the
\* zero-width placeholder with its line break when the text is empty.
RenderText(t) ==
  IF t = <<>>
  THEN << [str |-> FALSE, zw |-> TRUE, len |-> TRUE,
           kids |-> << [id |-> 1, br |-> FALSE, txt |-> <<ZW>>],
                       [id |-> 2, br |-> TRUE, txt |-> <<>>] >>] >>
  ELSE << [str |-> TRUE, zw |-> FALSE, len |-> FALSE,
           kids |-> << [id |-> 1, br |-> FALSE, txt |-> t] >>] >>

\* ---- selections
NoPoint == [ok |-> FALSE, key |-> 0, offset |-> 0]
PointAt(k, o) == [key |-> k, offset |-> o]

\* Selection.isCollapsed / isBlurred
IsCollapsed(sel) == sel.anchor = sel.focus
IsBlurred(sel) == ~sel.isFocused

\* Is the text node the native anchor names still a child of its run?
\* (textNode.parentElement != null; an element anchor stays in the page.)
Attached(d, ns) ==
  \/ ns.id = 0
  \/ /\ ns.k \in Keys
     /\ ns.r \in 1..Len(d[ns.k])
     /\ HasKid(d[ns.k][ns.r], ns.id)

\* Number of characters of the logical text that precede a DOM position.
\* id 0 names the run element itself, whose offset 0 is the start of the run.
LogicalOffset(d, k, r, id, off) ==
  LET run == d[k][r]
      i == KidIndex(run, id)
      runsBefore == TextContent(SubSeq(d[k], 1, r - 1))
      before == IF id = 0 THEN runsBefore
                ELSE runsBefore
                       \o Flatten([j \in 1..(i - 1) |-> run.kids[j].txt])
                       \o SubSeq(run.kids[i].txt, 1, off)
  IN Len(StripZeroWidth(before))

\* editor.findPoint(nativeNode, nativeOffset)
FindPoint(d, k, r, id, off) ==
  IF /\ k \in Keys
     /\ r \in 1..Len(d[k])
     /\ \/ id = 0 /\ off = 0
        \/ /\ HasKid(d[k][r], id)
           /\ off <= Len(d[k][r].kids[KidIndex(d[k][r], id)].txt)
  THEN [ok |-> TRUE, key |-> k, offset |-> LogicalOffset(d, k, r, id, off)]
  ELSE NoPoint

\* Element.closest(SELECTORS.KEY) from the native anchor: the element of a
\* text node when the anchor is in one of its runs, the element of the
\* enclosing block when it is elsewhere in the block (a spacer, say), and
\* 0 when the anchor is not inside any [data-key] element.
ClosestKeyElement(ns) == ns.k

\* The text node whose runs lie inside a [data-key] element: its own for a
\* text node's element, the block's text node for the block element.
TextKeyIn(el) == IF el \in Keys THEN el ELSE CHOOSE k \in Keys : TRUE

\* editor.findNode(element): the key of the node the element renders
FindNode(el) == el


\* ------------------------------------------------------ the flush routine
\* for (const childNode of childTextNode.childNodes) removeChild(<br>): the
\* iteration runs by index over the live list, so the node that follows a
\* removed one is not visited.
RECURSIVE RemoveLineBreaks(_, _)
RemoveLineBreaks(kids, i) ==
  IF i > Len(kids) THEN kids
  ELSE IF kids[i].br THEN RemoveLineBreaks(RemoveAt(kids, i), i + 1)
  ELSE RemoveLineBreaks(kids, i + 1)

FreshId(kids) ==
  IF kids = <<>> THEN 1
  ELSE 1 + (CHOOSE m \in {kids[i].id : i \in 1..Len(kids)} :
              \A j \in 1..Len(kids) : kids[j].id <= m)

\* Does the loop body of the flush rewrite this run?
NeedsCleaning(run) ==
  /\ run.str \/ run.zw
  /\ \/ run.str /\ (\E i \in 1..Len(RunText(run)) : RunText(run)[i] = ZW)
     \/ run.zw /\ RunText(run) # <<ZW>>

\* The children of a rewritten run: a single child has its own text
\* stripped; otherwise the run's textContent is assigned, which replaces
\* every child by one new text node (by none when the text is empty).
CleanKids(kids) ==
  LET k1 == RemoveLineBreaks(kids, 1)
      s == StripZeroWidth(Flatten([i \in 1..Len(k1) |-> k1[i].txt]))
  IN IF Len(k1) = 1
     THEN << [k1[1] EXCEPT !.txt = StripZeroWidth(@)] >>
     ELSE IF s = <<>> THEN <<>>
     ELSE << [id |-> FreshId(kids), br |-> FALSE, txt |-> s] >>

CleanRun(run) ==
  IF NeedsCleaning(run)
  THEN [run EXCEPT !.kids = CleanKids(@), !.zw = FALSE, !.len = FALSE]
  ELSE run

CleanRuns(runs) == [i \in 1..Len(runs) |-> CleanRun(runs[i])]

\* What the rewrite of a run does to a live native selection anchored in
\* it: assigning a text node's textContent moves the boundary to offset 0,
\* and a boundary inside a removed child moves to the run element (id 0).
AdjustNative(ns, k, runs) ==
  IF ns.k = k /\ ns.r \in 1..Len(runs) /\ ns.id # 0 /\ NeedsCleaning(runs[ns.r])
  THEN IF HasKid(CleanRun(runs[ns.r]), ns.id)
       THEN [ns EXCEPT !.off = 0, !.foff = 0]
       ELSE [ns EXCEPT !.id = 0, !.off = 0, !.foff = 0]
  ELSE ns

\* The three comparisons made before anything is changed: the error thrown,
\* or "none".
FlushCheck_NoNodeComparison(op, ns) ==
  IF ClosestKeyElement(ns) = 0 THEN "noSlateSpan"
  ELSE IF op.span # ClosestKeyElement(ns) THEN "spanMismatch"
  ELSE "none"

FlushCheck(op, ns) ==
  IF ClosestKeyElement(ns) = 0 THEN "noSlateSpan"
  ELSE IF op.span # ClosestKeyElement(ns) THEN "spanMismatch"
  ELSE IF FindNode(op.span) # op.selection.anchor.key THEN "nodeMismatch"
  ELSE "none"

\* slateSpanNode.textContent.replace(/[\uFEFF]/g, '')
NewTextContent_Raw(runs) == TextContent(runs)

NewTextContent(runs) == StripZeroWidth(TextContent(runs))

\* The range the new text replaces: offset 0 to node.text.length
ReplacedRange_Empty(t) == [from |-> 0, to |-> 0]

ReplacedRange(t) == [from |-> 0, to |-> Len(t)]

\* editor.insertTextAtRange(range, text) on one text node
InsertTextAtRange(t, range, text) ==
  SubSeq(t, 1, range.from) \o text \o SubSeq(t, range.to + 1, Len(t))

\* The selection after insertTextAtRange replaced the whole text of `key`
MovePoint(p, key, n) == IF p.key = key THEN [p EXCEPT !.offset = n] ELSE p
MoveSelection(sel, key, n) ==
  [sel EXCEPT !.anchor = MovePoint(@, key, n), !.focus = MovePoint(@, key, n)]

\* editor.select(Range.create({ anchor: point, focus: point }))
SelectPoint_AnchorOnly(sel, point) ==
  [sel EXCEPT !.anchor = PointAt(point.key, point.offset)]

SelectPoint(sel, point) ==
  [sel EXCEPT !.anchor = PointAt(point.key, point.offset),
              !.focus = PointAt(point.key, point.offset)]

\* window.getSelection().collapse(textNode, currentOffset)
CollapseNative(ns, textNode, currentOffset) ==
  [k |-> textNode.k, r |-> textNode.r, id |-> textNode.id,
   off |-> currentOffset, foff |-> currentOffset]

NoOperation ==
  [has |-> FALSE,
   selection |-> [anchor |-> PointAt(0, 0), focus |-> PointAt(0, 0), isFocused |-> FALSE],
   span |-> 0]

FlushResult(ret, threw, d, ns, doc, sel) ==
  [ret |-> ret, threw |-> threw, dom |-> d, nsel |-> ns, doc |-> doc, sel |-> sel]

flushQueuedNativeOperations_NoEmptyCheck ==
  LET op == nextNativeOperation
      ns == nativeSelection
      check == FlushCheck(op, ns)
  IN IF check # "none"
     THEN FlushResult("none", check, dom, ns, document, selection)
     ELSE FlushResult("undefined", "none", dom, ns, document, selection)

\* flushQueuedNativeOperations(editor), from the current state. ret is the
\* value handed back to the caller ("none" when it threw; the function ends
\* without a return statement, so a completed merge hands back undefined).
\* The slot itself is emptied by every call that found it occupied.
flushQueuedNativeOperations ==
  LET op == nextNativeOperation
      ns == nativeSelection
      currentOffset == ns.off
      check == FlushCheck(op, ns)
      key == op.selection.anchor.key
      tk == TextKeyIn(op.span)
  IN IF ~op.has
     THEN FlushResult("false", "none", dom, ns, document, selection)
     ELSE IF check # "none"
     THEN FlushResult("none", check, dom, ns, document, selection)
     ELSE
       LET d1 == [dom EXCEPT ![tk] = CleanRuns(@)]
           ns1 == AdjustNative(ns, tk, dom[tk])
           newTextContent == NewTextContent(d1[tk])
           doc1 == [document EXCEPT ![key] =
                      InsertTextAtRange(@, ReplacedRange(@), newTextContent)]
           sel1 == MoveSelection(selection, key, Len(doc1[key]))
           point == FindPoint(d1, ns.k, ns.r, ns.id, currentOffset)
       IN IF ~Attached(d1, ns)
          THEN FlushResult("none", "textNodeDetached", d1, ns1, doc1, sel1)
          ELSE IF ~point.ok
          THEN FlushResult("none", "noPoint", d1, ns1, doc1, sel1)
          ELSE FlushResult("undefined", "none", d1,
                           CollapseNative(ns1, ns, currentOffset), doc1,
                           SelectPoint(sel1, point))

\* ------------------------------------------------------------ observation
\* direct: the handler ran right after the onCompositionStart that stored
\* the Pending Native Operation, with nothing in between.
ObsDirect(op, threw, next, flush, ret, del, direct) ==
  [op |-> op, threw |-> threw, next |-> next, flush |-> flush, ret |-> ret,
   del |-> del, direct |-> direct, prevented |-> FALSE, path |-> <<>>]

Obs(op, threw, next, flush, ret, del) ==
  ObsDirect(op, threw, next, flush, ret, del, FALSE)

\* A handler that neither flushes nor throws; prevented: it called
\* event.preventDefault().
ObsEvent(op, next, prevented) ==
  [Obs(op, "none", next, FALSE, "none", FALSE) EXCEPT !.prevented = prevented]

\* if (flushQueuedNativeOperations(editor)) ...
Truthy(ret) == ret = "true"

\* ---------------------------------------------------- host collaborators
\* editor.delete() on a range inside one text node, and the render that
\* follows the change: the text between the two points is removed, the
\* selection collapses to the start, the node's element is rendered again
\* and the caret is put back where the selection is.
DeletedText(t, sel) ==
  LET lo == IF sel.anchor.offset <= sel.focus.offset THEN sel.anchor.offset ELSE sel.focus.offset
      hi == IF sel.anchor.offset <= sel.focus.offset THEN sel.focus.offset ELSE sel.anchor.offset
  IN [text |-> SubSeq(t, 1, lo) \o SubSeq(t, hi + 1, Len(t)), at |-> lo]

\* Selections the browser can make: the anchor inside a text node of a
\* container, collapsed or extended to the end of that text node; in the
\* block but in no text run; or outside every [data-key] element.
ElementPosition(k) == [k |-> k, r |-> 0, id |-> 0, off |-> 0, foff |-> 0]
NativePositions(d) ==
  {ElementPosition(k) : k \in ({0} \cup KeyElements) \ Keys} \cup
  UNION { UNION { UNION { UNION { { [k |-> k, r |-> r, id |-> d[k][r].kids[i].id,
                                      off |-> o, foff |-> f] :
                                      f \in {o} \cup (IF o = 0 THEN {Len(d[k][r].kids[i].txt)} ELSE {}) } :
                                  o \in 0..Len(d[k][r].kids[i].txt) } :
                          i \in {j \in 1..Len(d[k][r].kids) : ~d[k][r].kids[j].br} } :
                  r \in 1..Len(d[k]) } :
          k \in Keys }

\* The range the host's select handling derives from the native selection;
\* a point is never past the end of the text of its node.
Min(a, b) == IF a <= b THEN a ELSE b
SelectionFromNative(d, doc, ns, sel) ==
  IF ns.k \in Keys
  THEN [anchor |-> PointAt(ns.k, Min(LogicalOffset(d, ns.k, ns.r, ns.id, ns.off), Len(doc[ns.k]))),
        focus |-> PointAt(ns.k, Min(LogicalOffset(d, ns.k, ns.r, ns.id, ns.foff), Len(doc[ns.k]))),
        isFocused |-> TRUE]
  ELSE sel

ActiveElements == {"editor"}

\* What event.relatedTarget of a blur can be.
RelatedTargets == {"null", "editor", "spacer", "editableChild", "voidChild", "outside"}

\* ------------------------------------------------------------------- Init
Init ==
  /\ isComposing = FALSE
  /\ compositionCount = 0
  /\ isCopying = FALSE
  /\ isDragging = FALSE
  /\ isUserActionPerformed = FALSE
  /\ activeElement = "null"
  /\ document \in [Keys -> InitTexts]
  /\ dom = [k \in Keys |-> RenderText(document[k])]
  /\ nativeSelection = [k |-> 1, r |-> 1, id |-> 1, off |-> 0, foff |-> 0]
  /\ selection = [anchor |-> PointAt(1, 0), focus |-> PointAt(1, 0), isFocused |-> TRUE]
  /\ nextNativeOperation = NoOperation
  /\ frameTasks = <<>>
  /\ last = Obs("init", "none", FALSE, FALSE, "none", FALSE)
  /\ inComposition = FALSE

\* ---------------------------------------------------------------- actions
\* The browser types a character at the caret during a composition.
NativeInput(c) ==
  /\ isComposing
  /\ nativeSelection.k \in Keys /\ nativeSelection.id # 0
  /\ Attached(dom, nativeSelection)
  /\ Len(TextContent(dom[nativeSelection.k])) < MaxLen
  /\ LET ns == nativeSelection
         i == KidIndex(dom[ns.k][ns.r], ns.id)
         t == dom[ns.k][ns.r].kids[i].txt
     IN /\ dom' = [dom EXCEPT ![ns.k][ns.r].kids[i].txt =
                      SubSeq(t, 1, ns.off) \o <<c>> \o SubSeq(t, ns.off + 1, Len(t))]
        /\ nativeSelection' = [ns EXCEPT !.off = ns.off + 1, !.foff = ns.off + 1]
  /\ last' = Obs("nativeInput", "none", FALSE, FALSE, "none", FALSE)
  /\ UNCHANGED <<sessionVars, editorVars, frameTasks, inComposition>>

\* editor.delete() of the selected range, with the render that follows
DeleteSelection ==
  LET key == selection.anchor.key
      del == DeletedText(document[key], selection)
  IN /\ document' = [document EXCEPT ![key] = del.text]
     /\ selection' = [selection EXCEPT !.anchor = PointAt(key, del.at),
                                       !.focus = PointAt(key, del.at)]
     /\ dom' = [dom EXCEPT ![key] = RenderText(del.text)]
     /\ nativeSelection' =
          IF nativeSelection.k = key
          THEN [k |-> key, r |-> 1, id |-> 1, off |-> del.at, foff |-> del.at]
          ELSE nativeSelection

\* Observation only: every callback still queued when a compositionstart
\* arrives was registered before that start.
MarkStale(tasks) == [i \in 1..Len(tasks) |-> [tasks[i] EXCEPT !.stale = TRUE]]

\* The record stored in editor.controller.tmp.nextNativeOperation
Snapshot ==
  [has |-> TRUE, selection |-> selection, span |-> ClosestKeyElement(nativeSelection)]

onCompositionStart_Overwrite ==
  /\ compositionCount < MaxCompositions
  /\ isComposing' = TRUE
  /\ compositionCount' = compositionCount + 1
  /\ isUserActionPerformed' = TRUE
  /\ inComposition' = TRUE
  /\ frameTasks' = MarkStale(frameTasks)
  /\ UNCHANGED <<isCopying, isDragging, activeElement>>
  /\ IF ~IsCollapsed(selection)
     THEN /\ DeleteSelection
          /\ UNCHANGED nextNativeOperation
          /\ last' = Obs("onCompositionStart", "none", TRUE, FALSE, "none", TRUE)
     ELSE /\ nextNativeOperation' = Snapshot
          /\ UNCHANGED <<document, selection, domVars>>
          /\ last' = Obs("onCompositionStart", "none", TRUE, FALSE, "none", FALSE)

onCompositionStart_CaptureAlways ==
  /\ compositionCount < MaxCompositions
  /\ isComposing' = TRUE
  /\ compositionCount' = compositionCount + 1
  /\ isUserActionPerformed' = TRUE
  /\ inComposition' = TRUE
  /\ frameTasks' = MarkStale(frameTasks)
  /\ UNCHANGED <<isCopying, isDragging, activeElement>>
  /\ IF ~IsCollapsed(selection)
     THEN /\ DeleteSelection
          /\ nextNativeOperation' =
               [has |-> TRUE, selection |-> selection',
                span |-> ClosestKeyElement(nativeSelection')]
          /\ last' = Obs("onCompositionStart", "none", TRUE, FALSE, "none", TRUE)
     ELSE IF nextNativeOperation.has
     THEN /\ UNCHANGED <<editorVars, domVars>>
          /\ last' = Obs("onCompositionStart", "alreadyPending", FALSE, FALSE, "none", FALSE)
     ELSE /\ nextNativeOperation' = Snapshot
          /\ UNCHANGED <<document, selection, domVars>>
          /\ last' = Obs("onCompositionStart", "none", TRUE, FALSE, "none", FALSE)

onCompositionStart_ThrowFirst ==
  IF IsCollapsed(selection) /\ nextNativeOperation.has
  THEN /\ last' = Obs("onCompositionStart", "alreadyPending", FALSE, FALSE, "none", FALSE)
       /\ UNCHANGED <<sessionVars, editorVars, domVars, frameTasks, inComposition>>
  ELSE /\ compositionCount < MaxCompositions
       /\ isComposing' = TRUE
       /\ compositionCount' = compositionCount + 1
       /\ isUserActionPerformed' = TRUE
       /\ inComposition' = TRUE
       /\ frameTasks' = MarkStale(frameTasks)
       /\ UNCHANGED <<isCopying, isDragging, activeElement>>
       /\ IF ~IsCollapsed(selection)
          THEN /\ DeleteSelection
               /\ UNCHANGED nextNativeOperation
               /\ last' = Obs("onCompositionStart", "none", TRUE, FALSE, "none", TRUE)
          ELSE /\ nextNativeOperation' = Snapshot
               /\ UNCHANGED <<document, selection, domVars>>
               /\ last' = Obs("onCompositionStart", "none", TRUE, FALSE, "none", FALSE)

onCompositionStart ==
  /\ compositionCount < MaxCompositions
  /\ isComposing' = TRUE
  /\ compositionCount' = compositionCount + 1
  /\ isUserActionPerformed' = TRUE
  /\ inComposition' = TRUE
  /\ frameTasks' = MarkStale(frameTasks)
  /\ UNCHANGED <<isCopying, isDragging, activeElement>>
  /\ IF ~IsCollapsed(selection)
     THEN /\ DeleteSelection
          /\ UNCHANGED nextNativeOperation
          /\ last' = Obs("onCompositionStart", "none", TRUE, FALSE, "none", TRUE)
     ELSE IF nextNativeOperation.has
     THEN /\ UNCHANGED <<editorVars, domVars>>
          /\ last' = Obs("onCompositionStart", "alreadyPending", FALSE, FALSE, "none", FALSE)
     ELSE /\ nextNativeOperation' = Snapshot
          /\ UNCHANGED <<document, selection, domVars>>
          /\ last' = Obs("onCompositionStart", "none", TRUE, FALSE, "none", FALSE)

\* The flush runs first; when it throws, the handler ends there and no
\* animation-frame callback is registered.
onCompositionEnd_NoFlush ==
  /\ Len(frameTasks) < MaxTasks
  /\ isUserActionPerformed' = TRUE
  /\ frameTasks' = Append(frameTasks,
                          [kind |-> "finalize", n |-> compositionCount, stale |-> FALSE])
  /\ last' = Obs("onCompositionEnd", "none", TRUE, FALSE, "none", FALSE)
  /\ inComposition' = FALSE
  /\ UNCHANGED <<isComposing, compositionCount, isCopying, isDragging, activeElement,
                 editorVars, domVars>>

onCompositionEnd_KeepOnThrow ==
  /\ Len(frameTasks) < MaxTasks
  /\ LET n == compositionCount
         f == flushQueuedNativeOperations
     IN /\ isUserActionPerformed' = TRUE
        /\ nextNativeOperation' = IF f.threw = "none" THEN NoOperation
                                  ELSE nextNativeOperation
        /\ dom' = f.dom
        /\ nativeSelection' = f.nsel
        /\ document' = f.doc
        /\ selection' = f.sel
        /\ frameTasks' = IF f.threw = "none"
                         THEN Append(frameTasks, [kind |-> "finalize", n |-> n, stale |-> FALSE])
                         ELSE frameTasks
        /\ last' = ObsDirect("onCompositionEnd", f.threw, f.threw = "none", TRUE, f.ret,
                             FALSE,
                             /\ last.op = "onCompositionStart"
                             /\ last.threw = "none"
                             /\ ~last.del)
  /\ inComposition' = FALSE
  /\ UNCHANGED <<isComposing, compositionCount, isCopying, isDragging, activeElement>>

onCompositionEnd ==
  /\ Len(frameTasks) < MaxTasks
  /\ LET n == compositionCount
         f == flushQueuedNativeOperations
     IN /\ isUserActionPerformed' = TRUE
        /\ nextNativeOperation' = NoOperation
        /\ dom' = f.dom
        /\ nativeSelection' = f.nsel
        /\ document' = f.doc
        /\ selection' = f.sel
        /\ frameTasks' = IF f.threw = "none"
                         THEN Append(frameTasks, [kind |-> "finalize", n |-> n, stale |-> FALSE])
                         ELSE frameTasks
        /\ last' = ObsDirect("onCompositionEnd", f.threw, f.threw = "none", TRUE, f.ret,
                             FALSE,
                             /\ last.op = "onCompositionStart"
                             /\ last.threw = "none"
                             /\ ~last.del)
  /\ inComposition' = FALSE
  /\ UNCHANGED <<isComposing, compositionCount, isCopying, isDragging, activeElement>>

\* One callback handed to requestAnimationFrame runs.
RunFrameTask_NoCountCheck ==
  /\ frameTasks # <<>>
  /\ LET task == Head(frameTasks)
     IN /\ isComposing' = IF task.kind = "finalize" THEN FALSE ELSE isComposing
        /\ isCopying' = IF task.kind = "copyReset" THEN FALSE ELSE isCopying
        /\ last' = Obs("frameTask", "none", FALSE, FALSE, "reset", FALSE)
  /\ frameTasks' = Tail(frameTasks)
  /\ UNCHANGED <<compositionCount, isDragging, isUserActionPerformed, activeElement,
                 editorVars, domVars, inComposition>>

RunFrameTask ==
  /\ frameTasks # <<>>
  /\ LET task == Head(frameTasks)
         superseded == compositionCount > task.n
     IN /\ isComposing' = IF task.kind = "finalize" /\ ~superseded
                          THEN FALSE ELSE isComposing
        /\ isCopying' = IF task.kind = "copyReset" THEN FALSE ELSE isCopying
        /\ last' = Obs("frameTask", "none", FALSE, FALSE,
                       IF task.kind # "finalize" THEN "copyReset"
                       ELSE IF superseded THEN "skipped" ELSE "reset", FALSE)
  /\ frameTasks' = Tail(frameTasks)
  /\ UNCHANGED <<compositionCount, isDragging, isUserActionPerformed, activeElement,
                 editorVars, domVars, inComposition>>

\* The part of onInput that follows the isComposing guard.
InputWhenIdle ==
  LET f == flushQueuedNativeOperations
      flushed == f.threw = "none" /\ Truthy(f.ret)
      proceeds == f.threw = "none" /\ ~Truthy(f.ret) /\ ~IsBlurred(f.sel)
  IN /\ nextNativeOperation' = NoOperation
     /\ dom' = f.dom
     /\ nativeSelection' = f.nsel
     /\ document' = f.doc
     /\ selection' = f.sel
     /\ isUserActionPerformed' = IF proceeds THEN TRUE ELSE isUserActionPerformed
     /\ last' = Obs("onInput", f.threw, flushed \/ proceeds, TRUE, f.ret, FALSE)
     /\ UNCHANGED <<isComposing, compositionCount, isCopying, isDragging,
                    activeElement, frameTasks, inComposition>>

onInput_NoComposingGuard == InputWhenIdle

onInput_StopAfterFlush ==
  IF isComposing
  THEN /\ last' = Obs("onInput", "none", FALSE, FALSE, "none", FALSE)
       /\ UNCHANGED <<sessionVars, editorVars, domVars, frameTasks, inComposition>>
  ELSE IF nextNativeOperation.has
  THEN LET f == flushQueuedNativeOperations
       IN /\ nextNativeOperation' = NoOperation
          /\ dom' = f.dom
          /\ nativeSelection' = f.nsel
          /\ document' = f.doc
          /\ selection' = f.sel
          /\ last' = Obs("onInput", f.threw, FALSE, TRUE, f.ret, FALSE)
          /\ UNCHANGED <<sessionVars, frameTasks, inComposition>>
  ELSE InputWhenIdle

onInput ==
  IF isComposing
  THEN /\ last' = Obs("onInput", "none", FALSE, FALSE, "none", FALSE)
       /\ UNCHANGED <<sessionVars, editorVars, domVars, frameTasks, inComposition>>
  ELSE InputWhenIdle

onSelect_FlagFirst(ns, readOnly, active) ==
  /\ ns \in NativePositions(dom)
  /\ nativeSelection' = ns
  /\ isUserActionPerformed' = TRUE
  /\ IF isComposing \/ isCopying \/ readOnly
     THEN /\ last' = Obs("onSelect", "none", FALSE, FALSE, "none", FALSE)
          /\ UNCHANGED <<activeElement, selection>>
     ELSE /\ activeElement' = active
          /\ selection' = SelectionFromNative(dom, document, ns, selection)
          /\ last' = Obs("onSelect", "none", TRUE, FALSE, "none", FALSE)
  /\ UNCHANGED <<isComposing, compositionCount, isCopying, isDragging,
                 document, nextNativeOperation, dom, frameTasks, inComposition>>

\* The caret moves in the browser and the select event is delivered; the
\* handlers that follow in the chain set the logical selection from it.
onSelect(ns, readOnly, active) ==
  /\ ns \in NativePositions(dom)
  /\ nativeSelection' = ns
  /\ IF isComposing \/ isCopying \/ readOnly
     THEN /\ last' = Obs("onSelect", "none", FALSE, FALSE, "none", FALSE)
          /\ UNCHANGED <<activeElement, isUserActionPerformed, selection>>
     ELSE /\ activeElement' = active
          /\ isUserActionPerformed' = TRUE
          /\ selection' = SelectionFromNative(dom, document, ns, selection)
          /\ last' = Obs("onSelect", "none", TRUE, FALSE, "none", FALSE)
  /\ UNCHANGED <<isComposing, compositionCount, isCopying, isDragging,
                 document, nextNativeOperation, dom, frameTasks, inComposition>>

\* Does onBlur let the event through, once past its first three guards?
BlurPropagates_NoSpacerCheck(relatedTarget) ==
  relatedTarget \in {"null", "voidChild", "outside", "spacer"}

BlurPropagates(relatedTarget) == relatedTarget \in {"null", "voidChild", "outside"}

\* documentActive is window.document.activeElement; the handlers that
\* follow in the chain blur the logical selection.
onBlur(relatedTarget, readOnly, documentActive) ==
  /\ IF /\ ~isCopying
        /\ ~readOnly
        /\ activeElement # documentActive
        /\ BlurPropagates(relatedTarget)
     THEN /\ selection' = [selection EXCEPT !.isFocused = FALSE]
          /\ last' = Obs("onBlur", "none", TRUE, FALSE, "none", FALSE)
     ELSE /\ UNCHANGED selection
          /\ last' = Obs("onBlur", "none", FALSE, FALSE, "none", FALSE)
  /\ UNCHANGED <<sessionVars, document, nextNativeOperation, domVars, frameTasks,
                 inComposition>>

\* nested: IS_FIREFOX && event.target !== el. The handlers that follow in
\* the chain focus the logical selection.
onFocus(readOnly, documentActive, nested) ==
  /\ IF isCopying \/ readOnly
     THEN /\ UNCHANGED <<activeElement, selection>>
          /\ last' = Obs("onFocus", "none", FALSE, FALSE, "none", FALSE)
     ELSE /\ activeElement' = documentActive
          /\ IF nested
             THEN /\ UNCHANGED selection
                  /\ last' = Obs("onFocus", "none", FALSE, FALSE, "none", FALSE)
             ELSE /\ selection' = [selection EXCEPT !.isFocused = TRUE]
                  /\ last' = Obs("onFocus", "none", TRUE, FALSE, "none", FALSE)
  /\ UNCHANGED <<isComposing, compositionCount, isCopying, isDragging,
                 isUserActionPerformed, document, nextNativeOperation, domVars,
                 frameTasks, inComposition>>

\* -------------------------------------------------- the other handlers
nonComposing == <<document, selection, nextNativeOperation, dom, nativeSelection,
                  inComposition>>

\* synthetic: !!event.nativeEvent; level2: HAS_INPUT_EVENTS_LEVEL_2
onBeforeInput(readOnly, synthetic, level2) ==
  /\ IF isComposing \/ readOnly
     THEN /\ UNCHANGED isUserActionPerformed
          /\ last' = ObsEvent("onBeforeInput", FALSE, FALSE)
     ELSE /\ isUserActionPerformed' = TRUE
          /\ last' = ObsEvent("onBeforeInput", ~(synthetic /\ level2), FALSE)
  /\ UNCHANGED <<isComposing, compositionCount, isCopying, isDragging, activeElement,
                 nonComposing, frameTasks>>

onClick ==
  /\ isUserActionPerformed' = TRUE
  /\ last' = ObsEvent("onClick", TRUE, FALSE)
  /\ UNCHANGED <<isComposing, compositionCount, isCopying, isDragging, activeElement,
                 nonComposing, frameTasks>>

\* The callback given to requestAnimationFrame by onCopy and onCut
CopyReset == [kind |-> "copyReset", n |-> 0, stale |-> FALSE]

onCopy ==
  /\ Len(frameTasks) < MaxTasks
  /\ isCopying' = TRUE
  /\ frameTasks' = Append(frameTasks, CopyReset)
  /\ last' = ObsEvent("onCopy", TRUE, FALSE)
  /\ UNCHANGED <<isComposing, compositionCount, isDragging, isUserActionPerformed,
                 activeElement, nonComposing>>

onCut(readOnly) ==
  /\ Len(frameTasks) < MaxTasks
  /\ IF readOnly
     THEN /\ UNCHANGED <<isCopying, frameTasks>>
          /\ last' = ObsEvent("onCut", FALSE, FALSE)
     ELSE /\ isCopying' = TRUE
          /\ frameTasks' = Append(frameTasks, CopyReset)
          /\ last' = ObsEvent("onCut", TRUE, FALSE)
  /\ UNCHANGED <<isComposing, compositionCount, isDragging, isUserActionPerformed,
                 activeElement, nonComposing>>

onDragEnd ==
  /\ isDragging' = FALSE
  /\ last' = ObsEvent("onDragEnd", TRUE, FALSE)
  /\ UNCHANGED <<isComposing, compositionCount, isCopying, isUserActionPerformed,
                 activeElement, nonComposing, frameTasks>>

onDragEnter ==
  /\ last' = ObsEvent("onDragEnter", TRUE, FALSE)
  /\ UNCHANGED <<sessionVars, nonComposing, frameTasks>>

onDragExit ==
  /\ last' = ObsEvent("onDragExit", TRUE, FALSE)
  /\ UNCHANGED <<sessionVars, nonComposing, frameTasks>>

onDragLeave ==
  /\ last' = ObsEvent("onDragLeave", TRUE, FALSE)
  /\ UNCHANGED <<sessionVars, nonComposing, frameTasks>>

\* overVoid: !node || editor.isVoid(node) for the node of event.target; ie: IS_IE
onDragOver(overVoid, ie) ==
  /\ isDragging' = TRUE
  /\ last' = ObsEvent("onDragOver", TRUE, overVoid \/ ie)
  /\ UNCHANGED <<isComposing, compositionCount, isCopying, isUserActionPerformed,
                 activeElement, nonComposing, frameTasks>>

onDragStart ==
  /\ isDragging' = TRUE
  /\ last' = ObsEvent("onDragStart", TRUE, FALSE)
  /\ UNCHANGED <<isComposing, compositionCount, isCopying, isUserActionPerformed,
                 activeElement, nonComposing, frameTasks>>

onDrop(readOnly) ==
  /\ IF readOnly
     THEN /\ UNCHANGED isUserActionPerformed
          /\ last' = ObsEvent("onDrop", FALSE, FALSE)
     ELSE /\ isUserActionPerformed' = TRUE
          /\ last' = ObsEvent("onDrop", TRUE, TRUE)
  /\ UNCHANGED <<isComposing, compositionCount, isCopying, isDragging, activeElement,
                 nonComposing, frameTasks>>

\* What Hotkeys says of the key of a keydown event: a compose hotkey (one
\* that moves the caret), one of the editing hotkeys listed in onKeyDown,
\* or neither.
KeyClasses == {"compose", "editing", "plain"}

\* ios: IS_IOS
onKeyDown_PreventEditingWhileComposing(readOnly, key, ios) ==
  /\ IF readOnly
     THEN /\ UNCHANGED isUserActionPerformed
          /\ last' = ObsEvent("onKeyDown", FALSE, FALSE)
     ELSE IF isComposing
     THEN /\ UNCHANGED isUserActionPerformed
          /\ last' = ObsEvent("onKeyDown", FALSE,
                              key = "compose" \/ (~ios /\ key = "editing"))
     ELSE /\ isUserActionPerformed' = TRUE
          /\ last' = ObsEvent("onKeyDown", TRUE, ~ios /\ key = "editing")
  /\ UNCHANGED <<isComposing, compositionCount, isCopying, isDragging, activeElement,
                 nonComposing, frameTasks>>

onKeyDown(readOnly, key, ios) ==
  /\ IF readOnly
     THEN /\ UNCHANGED isUserActionPerformed
          /\ last' = ObsEvent("onKeyDown", FALSE, FALSE)
     ELSE IF isComposing
     THEN /\ UNCHANGED isUserActionPerformed
          /\ last' = ObsEvent("onKeyDown", FALSE, key = "compose")
     ELSE /\ isUserActionPerformed' = TRUE
          /\ last' = ObsEvent("onKeyDown", TRUE, ~ios /\ key = "editing")
  /\ UNCHANGED <<isComposing, compositionCount, isCopying, isDragging, activeElement,
                 nonComposing, frameTasks>>

onPaste(readOnly) ==
  /\ IF readOnly
     THEN /\ UNCHANGED isUserActionPerformed
          /\ last' = ObsEvent("onPaste", FALSE, FALSE)
     ELSE /\ isUserActionPerformed' = TRUE
          /\ last' = ObsEvent("onPaste", TRUE, TRUE)
  /\ UNCHANGED <<isComposing, compositionCount, isCopying, isDragging, activeElement,
                 nonComposing, frameTasks>>

\* queries: { userActionPerformed }
userActionPerformed == isUserActionPerformed

\* commands: { clearUserActionPerformed }
clearUserActionPerformed ==
  /\ isUserActionPerformed' = FALSE
  /\ last' = ObsEvent("clearUserActionPerformed", FALSE, FALSE)
  /\ UNCHANGED <<isComposing, compositionCount, isCopying, isDragging, activeElement,
                 nonComposing, frameTasks>>

Next ==
  \/ \E c \in TypedChars : NativeInput(c)
  \/ onCompositionStart
  \/ onCompositionEnd
  \/ RunFrameTask
  \/ onInput
  \/ \E ns \in NativePositions(dom), ro \in BOOLEAN, ae \in ActiveElements :
        onSelect(ns, ro, ae)

Spec == Init /\ [][Next]_vars

\* The composition handlers together with the focus handlers.
NextFocus ==
  \/ Next
  \/ \E rt \in RelatedTargets, ro \in BOOLEAN, da \in ActiveElements \cup {"body"} :
        onBlur(rt, ro, da)
  \/ \E ro \in BOOLEAN, ae \in ActiveElements, nested \in BOOLEAN :
        onFocus(ro, ae, nested)

SpecFocus == Init /\ [][NextFocus]_vars

\* Every handler and command of the plugin, for the event sequences in which
\* the browser neither types into the DOM nor moves the caret: a select
\* event is delivered for the caret as it is.
NextAll ==
  \/ onCompositionStart
  \/ onCompositionEnd
  \/ RunFrameTask
  \/ onInput
  \/ \E ro \in BOOLEAN, ae \in ActiveElements : onSelect(nativeSelection, ro, ae)
  \/ \E rt \in RelatedTargets, ro \in BOOLEAN, da \in ActiveElements \cup {"body"} :
        onBlur(rt, ro, da)
  \/ \E ro \in BOOLEAN, ae \in ActiveElements, nested \in BOOLEAN :
        onFocus(ro, ae, nested)
  \/ \E ro \in BOOLEAN, syn \in BOOLEAN, l2 \in BOOLEAN : onBeforeInput(ro, syn, l2)
  \/ onClick
  \/ onCopy
  \/ \E ro \in BOOLEAN : onCut(ro)
  \/ onDragEnd
  \/ onDragEnter
  \/ onDragExit
  \/ onDragLeave
  \/ \E ov \in BOOLEAN, ie \in BOOLEAN : onDragOver(ov, ie)
  \/ onDragStart
  \/ \E ro \in BOOLEAN : onDrop(ro)
  \/ \E ro \in BOOLEAN, key \in KeyClasses, ios \in BOOLEAN : onKeyDown(ro, key, ios)
  \/ \E ro \in BOOLEAN : onPaste(ro)
  \/ clearUserActionPerformed

SpecAll == Init /\ [][NextAll]_vars

\* ------------------------------------------------- removeNodeAtPath
\* test/commands/path/removeNodeAtPath/block.js: the value handed to the
\* command, the path it is run with and the value expected back. A block is
\* written as its text.
input == << <<"one">>, <<"two">> >>
run == <<1>>
output == << <<"one">> >>

BlockTexts == { <<"one">>, <<"two">>, <<"three">> }

RECURSIVE SeqsUpTo(_, _)
SeqsUpTo(S, n) ==
  IF n = 0 THEN {<<>>}
  ELSE LET shorter == SeqsUpTo(S, n - 1)
       IN shorter \cup {Append(q, x) : q \in shorter, x \in S}

\* editor.removeNodeAtPath(path) on the top-level nodes of the document
RemoveNodeAtPath_Last(nodes, path) == SubSeq(nodes, 1, Len(nodes) - 1)

RemoveNodeAtPath(nodes, path) == RemoveAt(nodes, path[1] + 1)

InitBlocks ==
  /\ isComposing = FALSE
  /\ compositionCount = 0
  /\ isCopying = FALSE
  /\ isDragging = FALSE
  /\ isUserActionPerformed = FALSE
  /\ activeElement = "null"
  /\ document \in SeqsUpTo(BlockTexts, MaxBlocks) \ {<<>>}
  /\ dom = [k \in Keys |-> RenderText(document[k])]
  /\ nativeSelection = [k |-> 1, r |-> 1, id |-> 1, off |-> 0, foff |-> 0]
  /\ selection = [anchor |-> PointAt(1, 0), focus |-> PointAt(1, 0), isFocused |-> FALSE]
  /\ nextNativeOperation = NoOperation
  /\ frameTasks = <<>>
  /\ last = Obs("init", "none", FALSE, FALSE, "none", FALSE)
  /\ inComposition = FALSE

removeNodeAtPath(path) ==
  /\ path[1] < Len(document)
  /\ document' = RemoveNodeAtPath(document, path)
  /\ last' = [ObsEvent("removeNodeAtPath", FALSE, FALSE) EXCEPT !.path = path]
  /\ UNCHANGED <<sessionVars, selection, nextNativeOperation, domVars, frameTasks,
                 inComposition>>

NextBlocks == \E i \in 0..(MaxBlocks - 1) : removeNodeAtPath(<<i>>)

SpecBlocks == InitBlocks /\ [][NextBlocks]_vars

\* requestAnimationFrame runs every callback it was given.
LiveSpec == Spec /\ WF_vars(RunFrameTask)

\* BeforePlugin() is called again for the same editor: the closure state is
\* new, while editor.controller.tmp keeps what the previous instance stored
\* there. The callbacks of the previous instance act on its own variables.
BeforePlugin ==
  /\ isComposing' = FALSE
  /\ compositionCount' = 0
  /\ isCopying' = FALSE
  /\ isDragging' = FALSE
  /\ isUserActionPerformed' = FALSE
  /\ activeElement' = "null"
  /\ frameTasks' = <<>>
  /\ last' = Obs("BeforePlugin", "none", FALSE, FALSE, "none", FALSE)
  /\ UNCHANGED <<editorVars, domVars, inComposition>>

NextHost == Next \/ BeforePlugin

SpecHost == Init /\ [][NextHost]_vars

TypeOK ==
  /\ isComposing \in BOOLEAN
  /\ compositionCount \in 0..MaxCompositions
  /\ Len(frameTasks) <= MaxTasks

\* ----------------------------------------------------------------- claims
\* A step in which flushQueuedNativeOperations ran and found the slot
\* occupied, and one in which it also ran to its end.
FlushStep == last'.flush /\ nextNativeOperation.has
FlushCompleted == FlushStep /\ last'.threw = "none"

HasZeroWidth(t) == \E i \in 1..Len(t) : t[i] = ZW

\* C1: onCompositionStart with a collapsed selection while a Pending Native
\* Operation exists throws, does not call next, and leaves the stored
\* operation exactly as it was.
C1_StartWhilePendingThrows ==
  [][(last'.op = "onCompositionStart" /\ IsCollapsed(selection) /\ nextNativeOperation.has)
       => (/\ last'.threw = "alreadyPending"
           /\ ~last'.next
           /\ nextNativeOperation' = nextNativeOperation)]_vars

C1_Witness ==
  /\ last.op = "onCompositionStart"
  /\ last.threw = "alreadyPending"
  /\ nextNativeOperation.has

\* C2: a finalize callback registered before a later onCompositionStart
\* never changes isComposing, and from an onCompositionStart until the next
\* onCompositionEnd isComposing is true in every state.
C2_ComposingUntilEnd ==
  /\ [](inComposition => isComposing)
  /\ [][(/\ last'.op = "frameTask"
         /\ frameTasks # <<>>
         /\ Head(frameTasks).kind = "finalize"
         /\ Head(frameTasks).stale)
          => isComposing' = isComposing]_vars

C2_Witness ==
  /\ last.op = "frameTask"
  /\ last.ret = "skipped"
  /\ inComposition
  /\ isComposing

\* C3: after an onCompositionEnd that no onCompositionStart follows,
\* isComposing eventually becomes false when the frame callbacks are run.
C3_EventuallyIdle ==
  (~inComposition /\ isComposing) ~> (~isComposing \/ inComposition)

\* C4: onCompositionStart with a non-collapsed selection calls
\* editor.delete(), which removes the selected text, and stores no Pending
\* Native Operation.
C4_ExpandedStartDeletes ==
  [][(last'.op = "onCompositionStart" /\ ~IsCollapsed(selection))
       => (/\ last'.del
           /\ document'[selection.anchor.key] =
                DeletedText(document[selection.anchor.key], selection).text
           /\ nextNativeOperation' = nextNativeOperation
           /\ ~nextNativeOperation'.has)]_vars

C4_Witness ==
  /\ last.op = "onCompositionStart"
  /\ last.del
  /\ ~nextNativeOperation.has
  /\ document[1] = <<>>

C6_InputIgnoredWhileComposing ==
  [][(last'.op = "onInput" /\ isComposing)
       => (/\ ~last'.next
           /\ ~last'.flush
           /\ UNCHANGED <<sessionVars, editorVars>>)]_vars

\* (onInput arrives after onCompositionEnd returned and before its finalize
\* callback ran)
C6_Witness ==
  /\ last.op = "onInput"
  /\ isComposing
  /\ ~inComposition
  /\ frameTasks # <<>>
  /\ ~last.next

\* C7: after a completed flush the text of the node named by the snapshot's
\* anchor key is the text content of the DOM container with every
\* zero-width character removed, and holds no zero-width character.
C7_FlushedTextIsCleanedDomText ==
  [][FlushCompleted
       => LET key == nextNativeOperation.selection.anchor.key
          IN /\ document'[key] = StripZeroWidth(TextContent(dom'[key]))
             /\ ~HasZeroWidth(document'[key])]_vars

\* (a placeholder run that was typed into has been merged: its markers are
\* gone and its text is the node's text)
C7_Witness ==
  /\ last.op = "onCompositionEnd"
  /\ last.ret = "undefined"
  /\ ~dom[1][1].str /\ ~dom[1][1].zw
  /\ document[1] # <<>>

\* An onCompositionEnd that directly follows the onCompositionStart which
\* stored the Pending Native Operation.
EndRightAfterStart ==
  /\ last'.op = "onCompositionEnd"
  /\ last'.direct

\* The DOM shows the document as rendered and the native caret is where the
\* logical selection is.
InSync ==
  /\ \A k \in Keys : dom[k] = RenderText(document[k])
  /\ LET ns == nativeSelection
         p == FindPoint(dom, ns.k, ns.r, ns.id, ns.off)
     IN p.ok /\ selection.anchor = PointAt(p.key, p.offset)

\* C8 as stated: a composition that starts from a collapsed selection and is
\* at once followed by onCompositionEnd leaves the document as it was and
\* the selection collapsed at the position it had.
C8_ImmediateEndIsNoOp ==
  [][EndRightAfterStart
       => (/\ document' = document
           /\ IsCollapsed(selection')
           /\ selection'.anchor = selection.anchor)]_vars

\* C8 as amended: the same, for a composition that starts while the DOM
\* container shows the rendered text of its node and the native caret is at
\* the position of the logical selection.
C8_ImmediateEndIsNoOpInSync ==
  [][(EndRightAfterStart /\ InSync)
       => (/\ last'.threw = "none"
           /\ document' = document
           /\ IsCollapsed(selection')
           /\ selection'.anchor = selection.anchor)]_vars

C8_Witness ==
  /\ last.op = "onCompositionEnd"
  /\ last.direct
  /\ last.ret = "undefined"
  /\ InSync
  /\ selection.anchor.offset = 1

\* C9: after a completed flush the logical selection is collapsed at the
\* point of the native text node and offset read when the flush began, and
\* the native selection is collapsed at that node and offset.
C9_SelectionsAgreeAfterFlush ==
  [][FlushCompleted
       => LET ns == nativeSelection
              p == FindPoint(dom', ns.k, ns.r, ns.id, ns.off)
          IN /\ p.ok
             /\ IsCollapsed(selection')
             /\ selection'.anchor = PointAt(p.key, p.offset)
             /\ nativeSelection' = [ns EXCEPT !.foff = ns.off]]_vars

\* (text was typed during the composition and the caret is after it)
C9_Witness ==
  /\ last.op = "onCompositionEnd"
  /\ last.ret = "undefined"
  /\ document[1] = <<"a", "b">>
  /\ selection.anchor = PointAt(1, 2)
  /\ nativeSelection.off = 2

\* C10: when the container of the native anchor is missing or is not the
\* container captured at composition start, or the node of the snapshot key
\* is not the node the container maps to, the flush throws and the document
\* and the selection are what they were.
C10_MismatchThrowsBeforeAnyChange ==
  [][(/\ FlushStep
      /\ \/ ClosestKeyElement(nativeSelection) = 0
         \/ ClosestKeyElement(nativeSelection) # nextNativeOperation.span
         \/ FindNode(nextNativeOperation.span) # nextNativeOperation.selection.anchor.key)
       => (/\ last'.threw \in {"noSlateSpan", "spanMismatch", "nodeMismatch"}
           /\ document' = document
           /\ selection' = selection)]_vars

C10_Witness ==
  /\ last.op = "onCompositionEnd"
  /\ last.threw = "nodeMismatch"
  /\ document[1] # StripZeroWidth(TextContent(dom[1]))

\* C11 as stated: an onBlur whose relatedTarget is a void-node spacer does
\* not invoke next, and one whose relatedTarget is outside the editor does.
C11_SpacerIgnoredOutsidePropagates ==
  [][\A ro \in BOOLEAN, da \in ActiveElements \cup {"body"} :
       /\ onBlur("spacer", ro, da) => ~last'.next
       /\ onBlur("outside", ro, da) => last'.next]_vars

\* C11 as amended: the spacer blur is always ignored; the blur to a target
\* outside the editor invokes next when no copy guard is active, the editor
\* is not read-only and the document's active element is not the recorded
\* one.
C11_SpacerIgnoredOutsidePropagatesUnguarded ==
  [][\A ro \in BOOLEAN, da \in ActiveElements \cup {"body"} :
       /\ onBlur("spacer", ro, da) => (~last'.next /\ selection' = selection)
       /\ (onBlur("outside", ro, da) /\ ~isCopying /\ ~ro /\ activeElement # da)
            => last'.next]_vars

C11_Witness ==
  /\ last.op = "onBlur"
  /\ last.next
  /\ IsBlurred(selection)
  /\ ~isCopying

\* A reset callback registered by onCopy or onCut is still waiting to run.
CopyResetQueued == \E i \in 1..Len(frameTasks) : frameTasks[i].kind = "copyReset"

\* C12: an onBlur that arrives while the reset callback of the latest onCopy
\* or onCut has not run yet does not invoke next.
C12_BlurSuppressedUntilReset ==
  [][(last'.op = "onBlur" /\ CopyResetQueued) => ~last'.next]_vars

\* The handlers that record a user action.
UserActionOps ==
  {"onBeforeInput", "onClick", "onCompositionStart", "onCompositionEnd", "onDrop",
   "onInput", "onKeyDown", "onPaste", "onSelect"}

\* C13 as stated: userActionPerformed is false right after
\* clearUserActionPerformed; it turns true only in a step of one of the nine
\* handlers that was handled (next invoked); it is true after every such
\* step; and only clearUserActionPerformed turns it false.
C13_FlagTracksHandledActions ==
  [][/\ last'.op = "clearUserActionPerformed" => ~userActionPerformed'
     /\ (~userActionPerformed /\ userActionPerformed')
          => (last'.op \in UserActionOps /\ last'.next)
     /\ (last'.op \in UserActionOps /\ last'.next) => userActionPerformed'
     /\ (userActionPerformed /\ ~userActionPerformed')
          => last'.op = "clearUserActionPerformed"]_vars

\* C13 as amended: the same, except that the flag also turns true in a step
\* of onBeforeInput that got past the composing and read-only guards and
\* then ignored the event, and in a step of onCompositionStart or
\* onCompositionEnd that ended in a thrown error.
C13_FlagTracksActionsPastFirstGuards ==
  [][/\ last'.op = "clearUserActionPerformed" => ~userActionPerformed'
     /\ (~userActionPerformed /\ userActionPerformed')
          => /\ last'.op \in UserActionOps
             /\ \/ last'.next
                \/ last'.op = "onBeforeInput" /\ ~isComposing
                \/ last'.op \in {"onCompositionStart", "onCompositionEnd"}
                     /\ last'.threw # "none"
     /\ (last'.op \in UserActionOps /\ last'.next) => userActionPerformed'
     /\ (userActionPerformed /\ ~userActionPerformed')
          => last'.op = "clearUserActionPerformed"]_vars

\* (the flag was cleared after a composition had set it)
C13_Witness ==
  /\ last.op = "clearUserActionPerformed"
  /\ ~userActionPerformed
  /\ isComposing

C15_FlushReturnsWhetherItMerged ==
  [][/\ FlushCompleted => last'.ret = "true"
     /\ (last'.flush /\ ~nextNativeOperation.has) => last'.ret = "false"]_vars

\* C16: a flush that finds no Pending Native Operation hands back false and
\* changes nothing: the document, both selections, the DOM, the slot and
\* the session state are what they were (the user-action flag is written
\* by the handler that called the flush, not by the flush).
C16_EmptyFlushChangesNothing ==
  [][(last'.flush /\ ~nextNativeOperation.has)
       => (/\ flushQueuedNativeOperations =
                FlushResult("false", "none", dom, nativeSelection, document, selection)
           /\ last'.ret = "false"
           /\ last'.threw = "none"
           /\ UNCHANGED <<document, selection, dom, nativeSelection, nextNativeOperation>>
           /\ UNCHANGED <<isComposing, compositionCount, isCopying, isDragging,
                          activeElement>>)]_vars

\* (a flush with nothing pending, after an earlier flush merged typed text)
C16_Witness ==
  /\ last.flush
  /\ last.ret = "false"
  /\ document[1] = <<"a", "b">>
  /\ ~nextNativeOperation.has

\* C17: compositionCount never decreases; every onCompositionStart, the one
\* that ends in the 'already pending' error included, adds exactly one to
\* it and leaves isComposing true; no other step changes it.
C17_CountGrowsByOnePerStart ==
  [][/\ compositionCount' >= compositionCount
     /\ last'.op = "onCompositionStart"
          => (compositionCount' = compositionCount + 1 /\ isComposing')
     /\ compositionCount' # compositionCount
          => last'.op = "onCompositionStart"]_vars

\* (a second compositionstart failed on the occupied slot and was counted)
C17_Witness ==
  /\ last.op = "onCompositionStart"
  /\ last.threw = "alreadyPending"
  /\ compositionCount = 2
  /\ isComposing

\* C18: while isComposing is true and the editor is not read-only, onKeyDown
\* does not invoke next, leaves the user-action flag as it is, and calls
\* preventDefault exactly when the key is a compose hotkey.
C18_KeyDownWhileComposing ==
  [][\A key \in KeyClasses, ios \in BOOLEAN :
       (isComposing /\ onKeyDown(FALSE, key, ios))
         => (/\ ~last'.next
             /\ isUserActionPerformed' = isUserActionPerformed
             /\ last'.prevented <=> key = "compose")]_vars

\* (a compose hotkey pressed during a composition was prevented)
C18_Witness ==
  /\ last.op = "onKeyDown"
  /\ last.prevented
  /\ ~last.next
  /\ isComposing

\* C19: whenever a Pending Native Operation exists isComposing is true, and
\* a flush that found the slot occupied is one made by onCompositionEnd.
C19_PendingImpliesComposing ==
  /\ nextNativeOperation.has => isComposing
  /\ (last.flush /\ last.ret # "false") => last.op = "onCompositionEnd"

\* (an input event arrived while an operation was pending and was ignored)
C19_Witness ==
  /\ last.op = "onInput"
  /\ ~last.flush
  /\ nextNativeOperation.has
  /\ isComposing

\* C20: after every onCompositionEnd, completed or thrown, the slot is
\* empty; an onCompositionStart that no other onCompositionStart precedes
\* since the last onCompositionEnd does not fail on an occupied slot.
C20_EndEmptiesTheSlot ==
  [][/\ last'.op = "onCompositionEnd" => ~nextNativeOperation'.has
     /\ (last'.op = "onCompositionStart" /\ ~inComposition)
          => last'.threw # "alreadyPending"]_vars

\* (a composition started after an onCompositionEnd whose flush threw)
C20_Witness ==
  /\ last.op = "onCompositionStart"
  /\ last.threw = "none"
  /\ nextNativeOperation.has
  /\ compositionCount = 2
  /\ document[1] # StripZeroWidth(TextContent(dom[1]))

====
